---- MODULE Spec2Model ----
(***************************************************************************)
(* Model of the `replica restore` and `replica restart` commands of        *)
(* ch_tools/chadmin/cli/replica_group.py.                                  *)
(*                                                                         *)
(* One behaviour is one command invocation: the catalog read               *)
(* (list_table_replicas), then the loop over the returned replicas.  Each  *)
(* mutating call is a blocking request: the orchestrator issues it, the    *)
(* remote engine (or the dry-run gate) answers, and only then does the     *)
(* orchestrator take its next step.                                        *)
(***************************************************************************)
EXTENDS Integers, Sequences, FiniteSets, TLC

VARIABLES
    command,     \* "restore" or "restart": the command that was invoked
    on_cluster,  \* the --on-cluster flag
    dry_run,     \* the --dry-run flag
    catalog,     \* the replicas the remote engine knows, in the order it yields them
    pc,          \* position of the orchestrator
    replicas,    \* the sequence returned by list_table_replicas
    i,           \* 1-based position of the for loop in replicas
    calls,       \* every restart/restore call issued by the command, in order
    remote,      \* the mutating calls that reached the remote engine
    intended,    \* the intended actions recorded by the dry-run gate
    reply,       \* the answer to the call in flight
    raised,      \* the failure that propagated to the caller
    reads,       \* number of catalog reads performed
    listed,      \* the catalog read requests made, with their arguments
    previous,    \* what the previous invocation of the command did, if any
    sel,         \* a selector evaluation: candidate, patterns and verdict
    mntr         \* a keeper_mntr call: its local variables and its outcome

vars == <<command, on_cluster, dry_run, catalog, pc, replicas, i, calls,
          remote, intended, reply, raised, reads, listed, previous, sel,
          mntr>>

(* State outside one invocation of a replica command. *)
others == <<previous, sel, mntr>>

-----------------------------------------------------------------------------
(* Bounds and input sets *)

MaxReplicas == 2

(* Largest value of the `retries` setting of the Keeper probe. *)
MaxRetries == 3

Databases == {"shard1", "shard2"}

Tables == {"events", "hits"}

Commands == {"restore", "restart"}

(* Error texts the remote engine may answer with. *)
Messages ==
    { "Code: 36. Replica has metadata in ZooKeeper",
      "Code: 225. (NO_ZOOKEEPER)",
      "Replica path is present at /t",
      "NO_ZOOKEEPER, Replica path is present",
      "some other error",
      "no_zookeeper, replica path is present" }

-----------------------------------------------------------------------------
(* Values *)

None == "None"

NoReply == [kind |-> "none", text |-> ""]

Pending == [kind |-> "pending", text |-> ""]

Ok == [kind |-> "ok", text |-> ""]

ClickhouseError(t) == [kind |-> "ClickhouseError", text |-> t]

TransportError == [kind |-> "TransportError", text |-> ""]

Failures == {ClickhouseError(m) : m \in Messages} \cup {TransportError}

Responses == {Ok} \cup Failures

IsFailure(r) == r.kind \in {"ClickhouseError", "TransportError"}

ReplicaRecords ==
    [database : Databases, table : Tables, is_readonly : BOOLEAN]

Identity(r) == <<r.database, r.table>>

(* Catalogs: at most MaxReplicas records, one per (database, table). *)
Catalogs ==
    { c \in UNION { [1..n -> ReplicaRecords] : n \in 0..MaxReplicas } :
        \A p, q \in 1..Len(c) : p # q => Identity(c[p]) # Identity(c[q]) }

-----------------------------------------------------------------------------
(* Pure helpers *)

(* Python's `needle in s` on strings. *)
Contains(s, needle) ==
    \E k \in 1..(Len(s) - Len(needle) + 1) :
        SubSeq(s, k, k + Len(needle) - 1) = needle

NeedleMetadata == "Replica has metadata in ZooKeeper"

NeedleNoZookeeper == "NO_ZOOKEEPER"

NeedlePathPresent == "Replica path is present"

Classify_PathFirst(msg) ==
    IF Contains(msg, NeedlePathPresent)
    THEN "RecoverableB"
    ELSE IF Contains(msg, NeedleMetadata) \/ Contains(msg, NeedleNoZookeeper)
         THEN "RecoverableA"
         ELSE "Unclassified"

(* The if / elif / else chain over msg of restore_command. *)
Classify(msg) ==
    IF Contains(msg, NeedleMetadata) \/ Contains(msg, NeedleNoZookeeper)
    THEN "RecoverableA"
    ELSE IF Contains(msg, NeedlePathPresent)
         THEN "RecoverableB"
         ELSE "Unclassified"

get_cluster_name == "cluster1"

cluster_Dropped == None

(* cluster = get_cluster_name(ctx) if on_cluster else None *)
cluster == IF on_cluster THEN get_cluster_name ELSE None

(* The catalog read: the records of the catalog that pass the filter, in  *)
(* the order the engine yields them.                                       *)
list_table_replicas(cat, is_readonly) ==
    SelectSeq(cat, LAMBDA r : is_readonly => r.is_readonly)

(* The arguments of one list_table_replicas call. *)
ReadRequest(is_readonly, cl) == [is_readonly |-> is_readonly, cluster |-> cl]

(* No invocation came before this one. *)
NoRun == [pc |-> "none", calls |-> <<>>, replicas |-> <<>>, raised |-> NoReply]

(* A selection keyword that was not given on the command line. *)
Absent == [present |-> FALSE, text |-> ""]

(* A selection keyword given as --database P, --exclude-table P, ... *)
Pattern(t) == [present |-> TRUE, text |-> t]

(* No selector evaluation is in progress. *)
NoSel == [database |-> "", table |-> "",
          database_pattern |-> Absent, exclude_database_pattern |-> Absent,
          table_pattern |-> Absent, exclude_table_pattern |-> Absent,
          stage |-> "idle", verdict |-> FALSE]

(* The empty dictionary. *)
EmptyDict == [k \in {} |-> ""]

(* No exception. *)
NoException == [type |-> "", text |-> ""]

(* No keeper_mntr call is in progress. *)
NoMntr == [pc |-> "Idle", retries |-> 0, attempt |-> 0, result |-> EmptyDict,
           e |-> NoException, outcomes |-> <<>>, returned |-> EmptyDict,
           raised |-> NoException]

(* `for replica in seq:` at position k: the body runs, or the loop ends. *)
ForLoop(seq, k, body) == IF k > Len(seq) THEN "Done" ELSE body

CurrentReplica_Reversed == replicas[Len(replicas) - i + 1]

(* The loop variable `replica`. *)
CurrentReplica == replicas[i]

-----------------------------------------------------------------------------
(* The mutating action client behind the dry-run gate *)

ActionRecord(op, database, table, cl) ==
    [op |-> op, database |-> database, table |-> table, cluster |-> cl]

CallRecord(op, database, table, cl, dr, phase, r) ==
    [op |-> op, database |-> database, table |-> table, cluster |-> cl,
     dry_run |-> dr, idx |-> i, phase |-> phase, reply |-> r]

(* One restart/restore call: with dry_run the call is recorded as an       *)
(* intended action and answered with success; otherwise it is sent to the  *)
(* remote engine and the caller blocks until the answer.                   *)
Execute(op, database, table, cl, dr, phase) ==
    /\ reply = NoReply
    /\ IF dr
       THEN /\ intended' = Append(intended, ActionRecord(op, database, table, cl))
            /\ remote' = remote
            /\ reply' = Ok
            /\ calls' = Append(calls, CallRecord(op, database, table, cl, dr, phase, Ok))
       ELSE /\ remote' = Append(remote, ActionRecord(op, database, table, cl))
            /\ intended' = intended
            /\ reply' = Pending
            /\ calls' = Append(calls, CallRecord(op, database, table, cl, dr, phase, Pending))

restore_table_replica(database, table, cl, dr, phase) ==
    Execute("restore", database, table, cl, dr, phase)

restart_table_replica(database, table, cl, dr, phase) ==
    Execute("restart", database, table, cl, dr, phase)

(* The remote engine answers the call in flight. *)
RemoteRespond ==
    /\ reply = Pending
    /\ \E r \in Responses :
        /\ reply' = r
        /\ calls' = [calls EXCEPT ![Len(calls)].reply = r]
    /\ UNCHANGED <<command, on_cluster, dry_run, catalog, pc, replicas, i,
                   remote, intended, raised, reads, listed, others>>

-----------------------------------------------------------------------------
(* Initial state: a command line and a catalog *)

Init ==
    /\ command \in Commands
    /\ on_cluster \in BOOLEAN
    /\ dry_run \in BOOLEAN
    /\ catalog \in Catalogs
    /\ pc = "Selecting"
    /\ replicas = <<>>
    /\ i = 1
    /\ calls = <<>>
    /\ remote = <<>>
    /\ intended = <<>>
    /\ reply = NoReply
    /\ raised = NoReply
    /\ reads = 0
    /\ listed = <<>>
    /\ previous = NoRun
    /\ sel = NoSel
    /\ mntr = NoMntr

-----------------------------------------------------------------------------
(* Catalog read *)

ListReplicasRestore_NoFilter ==
    /\ command = "restore"
    /\ pc = "Selecting"
    /\ replicas' = list_table_replicas(catalog, FALSE)
    /\ reads' = reads + 1
    /\ listed' = Append(listed, ReadRequest(FALSE, None))
    /\ pc' = ForLoop(replicas', 1, "Restoring")
    /\ UNCHANGED <<command, on_cluster, dry_run, catalog, i, calls, remote,
                   intended, reply, raised, others>>

(* ro_replicas = list_table_replicas(ctx, is_readonly=True, **kwargs) *)
ListReplicasRestore ==
    /\ command = "restore"
    /\ pc = "Selecting"
    /\ replicas' = list_table_replicas(catalog, TRUE)
    /\ reads' = reads + 1
    /\ listed' = Append(listed, ReadRequest(TRUE, None))
    /\ pc' = ForLoop(replicas', 1, "Restoring")
    /\ UNCHANGED <<command, on_cluster, dry_run, catalog, i, calls, remote,
                   intended, reply, raised, others>>

(* for replica in list_table_replicas(ctx, **kwargs) *)
ListReplicasRestart ==
    /\ command = "restart"
    /\ pc = "Selecting"
    /\ replicas' = list_table_replicas(catalog, FALSE)
    /\ reads' = reads + 1
    /\ listed' = Append(listed, ReadRequest(FALSE, None))
    /\ pc' = ForLoop(replicas', 1, "Restarting")
    /\ UNCHANGED <<command, on_cluster, dry_run, catalog, i, calls, remote,
                   intended, reply, raised, others>>

ListReplicasFails_Partial ==
    /\ pc = "Selecting"
    /\ \E r \in {TransportError, ClickhouseError("some other error")} :
        raised' = r
    /\ reads' = reads + 1
    /\ listed' = Append(listed, ReadRequest(command = "restore", None))
    /\ replicas' = SubSeq(catalog, 1, 1)
    /\ pc' = ForLoop(replicas', 1,
                     IF command = "restore" THEN "Restoring" ELSE "Restarting")
    /\ UNCHANGED <<command, on_cluster, dry_run, catalog, i, calls,
                   remote, intended, reply, others>>

(* The catalog read raises: nothing catches it in either command. *)
ListReplicasFails ==
    /\ pc = "Selecting"
    /\ \E r \in {TransportError, ClickhouseError("some other error")} :
        raised' = r
    /\ reads' = reads + 1
    /\ listed' = Append(listed, ReadRequest(command = "restore", None))
    /\ pc' = "Aborted"
    /\ UNCHANGED <<command, on_cluster, dry_run, catalog, replicas, i, calls,
                   remote, intended, reply, others>>

-----------------------------------------------------------------------------
(* restore_command: the loop body *)

(* What a step that issues a call leaves alone. *)
CallFrame == UNCHANGED <<command, on_cluster, dry_run, catalog, pc, replicas,
                         i, raised, reads, listed, others>>

(* What a step that consumes an answer leaves alone. *)
StepFrame == UNCHANGED <<command, on_cluster, dry_run, catalog, replicas, i,
                         calls, remote, intended, reads, listed, others>>

CallRestore_NoDryRun ==
    /\ pc = "Restoring"
    /\ restore_table_replica(CurrentReplica.database, CurrentReplica.table,
                             cluster, FALSE, "initial")
    /\ CallFrame

(* try: restore_table_replica(ctx, database, table, cluster, dry_run) *)
CallRestore ==
    /\ pc = "Restoring"
    /\ restore_table_replica(CurrentReplica.database, CurrentReplica.table,
                             cluster, dry_run, "initial")
    /\ CallFrame

RestoreSucceeded_ThenRestart ==
    /\ pc = "Restoring"
    /\ reply = Ok
    /\ pc' = "RecoveringB"
    /\ reply' = NoReply
    /\ raised' = raised
    /\ StepFrame

(* The restore returned: the try block ends, the loop goes on. *)
RestoreSucceeded ==
    /\ pc = "Restoring"
    /\ reply = Ok
    /\ pc' = "Advancing"
    /\ reply' = NoReply
    /\ raised' = raised
    /\ StepFrame

(* except ClickhouseError, first branch of the if chain. *)
RestoreFailedA ==
    /\ pc = "Restoring"
    /\ reply.kind = "ClickhouseError"
    /\ Classify(reply.text) = "RecoverableA"
    /\ pc' = "RecoveringA"
    /\ reply' = NoReply
    /\ raised' = raised
    /\ StepFrame

(* except ClickhouseError, elif branch. *)
RestoreFailedB ==
    /\ pc = "Restoring"
    /\ reply.kind = "ClickhouseError"
    /\ Classify(reply.text) = "RecoverableB"
    /\ pc' = "RecoveringB"
    /\ reply' = NoReply
    /\ raised' = raised
    /\ StepFrame

RestoreFailedUnclassified_Restart ==
    /\ pc = "Restoring"
    /\ reply.kind = "ClickhouseError"
    /\ Classify(reply.text) = "Unclassified"
    /\ pc' = "RecoveringB"
    /\ raised' = raised
    /\ reply' = NoReply
    /\ StepFrame

RestoreFailedUnclassified_Swallow ==
    /\ pc = "Restoring"
    /\ reply.kind = "ClickhouseError"
    /\ Classify(reply.text) = "Unclassified"
    /\ pc' = "Advancing"
    /\ raised' = raised
    /\ reply' = NoReply
    /\ StepFrame

(* except ClickhouseError, else branch: raise. *)
RestoreFailedUnclassified ==
    /\ pc = "Restoring"
    /\ reply.kind = "ClickhouseError"
    /\ Classify(reply.text) = "Unclassified"
    /\ pc' = "Aborted"
    /\ raised' = reply
    /\ reply' = NoReply
    /\ StepFrame

RestoreTransportFailure_Classified ==
    /\ pc = "Restoring"
    /\ reply.kind = "TransportError"
    /\ pc' = "RecoveringA"
    /\ raised' = raised
    /\ reply' = NoReply
    /\ StepFrame

(* A failure that is not a ClickhouseError passes the except clause. *)
RestoreTransportFailure ==
    /\ pc = "Restoring"
    /\ reply.kind = "TransportError"
    /\ pc' = "Aborted"
    /\ raised' = reply
    /\ reply' = NoReply
    /\ StepFrame

(* First branch: restart_table_replica(...) *)
CallRestartA ==
    /\ pc = "RecoveringA"
    /\ restart_table_replica(CurrentReplica.database, CurrentReplica.table,
                             cluster, dry_run, "remediation")
    /\ CallFrame

RestartASucceeded_SkipRetry ==
    /\ pc = "RecoveringA"
    /\ reply = Ok
    /\ pc' = "Advancing"
    /\ reply' = NoReply
    /\ raised' = raised
    /\ StepFrame

(* The restart of the first branch returned: the retry restore is next. *)
RestartASucceeded ==
    /\ pc = "RecoveringA"
    /\ reply = Ok
    /\ pc' = "RetryRestore"
    /\ reply' = NoReply
    /\ raised' = raised
    /\ StepFrame

CallRetryRestore_DefaultArgs ==
    /\ pc = "RetryRestore"
    /\ restore_table_replica(CurrentReplica.database, CurrentReplica.table,
                             None, FALSE, "remediation")
    /\ CallFrame

(* First branch: restore_table_replica(...) after the restart. *)
CallRetryRestore ==
    /\ pc = "RetryRestore"
    /\ restore_table_replica(CurrentReplica.database, CurrentReplica.table,
                             cluster, dry_run, "remediation")
    /\ CallFrame

(* The retry restore returned: the branch ends, the loop goes on. *)
RetryRestoreSucceeded ==
    /\ pc = "RetryRestore"
    /\ reply = Ok
    /\ pc' = "Advancing"
    /\ reply' = NoReply
    /\ raised' = raised
    /\ StepFrame

(* elif branch: restart_table_replica(...) *)
CallRestartB ==
    /\ pc = "RecoveringB"
    /\ restart_table_replica(CurrentReplica.database, CurrentReplica.table,
                             cluster, dry_run, "remediation")
    /\ CallFrame

RestartBSucceeded_ThenRestore ==
    /\ pc = "RecoveringB"
    /\ reply = Ok
    /\ pc' = "RetryRestore"
    /\ reply' = NoReply
    /\ raised' = raised
    /\ StepFrame

RestartBSucceeded_RetryLoop ==
    /\ pc = "RecoveringB"
    /\ reply = Ok
    /\ pc' = "Restoring"
    /\ reply' = NoReply
    /\ raised' = raised
    /\ StepFrame

(* The restart of the elif branch returned: the branch ends. *)
RestartBSucceeded ==
    /\ pc = "RecoveringB"
    /\ reply = Ok
    /\ pc' = "Advancing"
    /\ reply' = NoReply
    /\ raised' = raised
    /\ StepFrame

RemediationFailed_Swallow ==
    /\ pc \in {"RecoveringA", "RetryRestore", "RecoveringB"}
    /\ IsFailure(reply)
    /\ pc' = "Advancing"
    /\ raised' = raised
    /\ reply' = NoReply
    /\ StepFrame

RemediationFailed_Reclassify ==
    /\ pc \in {"RecoveringA", "RetryRestore", "RecoveringB"}
    /\ IsFailure(reply)
    /\ IF reply.kind = "ClickhouseError" /\ Classify(reply.text) = "RecoverableA"
       THEN pc' = "RecoveringA" /\ raised' = raised
       ELSE pc' = "Aborted" /\ raised' = reply
    /\ reply' = NoReply
    /\ StepFrame

(* A call made inside the except clause raises: no handler encloses it, *)
(* so the failure leaves restore_command.                                *)
RemediationFailed ==
    /\ pc \in {"RecoveringA", "RetryRestore", "RecoveringB"}
    /\ IsFailure(reply)
    /\ pc' = "Aborted"
    /\ raised' = reply
    /\ reply' = NoReply
    /\ StepFrame

Advance_Reread ==
    /\ pc = "Advancing"
    /\ i' = i + 1
    /\ replicas' = list_table_replicas(catalog, command = "restore")
    /\ reads' = reads + 1
    /\ listed' = Append(listed, ReadRequest(command = "restore", None))
    /\ pc' = ForLoop(replicas, i + 1,
                     IF command = "restore" THEN "Restoring" ELSE "Restarting")
    /\ UNCHANGED <<command, on_cluster, dry_run, catalog, calls,
                   remote, intended, reply, raised, others>>

Advance_BreakEarly ==
    /\ pc = "Advancing"
    /\ i' = i + 1
    /\ pc' = "Done"
    /\ UNCHANGED <<command, on_cluster, dry_run, catalog, replicas, calls,
                   remote, intended, reply, raised, reads, listed, others>>

(* The for loop takes the next replica, or ends. *)
Advance ==
    /\ pc = "Advancing"
    /\ i' = i + 1
    /\ pc' = ForLoop(replicas, i + 1,
                     IF command = "restore" THEN "Restoring" ELSE "Restarting")
    /\ UNCHANGED <<command, on_cluster, dry_run, catalog, replicas, calls,
                   remote, intended, reply, raised, reads, listed, others>>

-----------------------------------------------------------------------------
(* restart_replica_command: the loop body *)

(* restart_table_replica(ctx, database, table, cluster, dry_run) *)
CallRestart ==
    /\ pc = "Restarting"
    /\ restart_table_replica(CurrentReplica.database, CurrentReplica.table,
                             cluster, dry_run, "initial")
    /\ CallFrame

(* The restart returned: the loop goes on. *)
RestartSucceeded ==
    /\ pc = "Restarting"
    /\ reply = Ok
    /\ pc' = "Advancing"
    /\ reply' = NoReply
    /\ raised' = raised
    /\ StepFrame

RestartFailed_Swallow ==
    /\ pc = "Restarting"
    /\ IsFailure(reply)
    /\ pc' = "Advancing"
    /\ raised' = raised
    /\ reply' = NoReply
    /\ StepFrame

(* The restart raised: restart_replica_command has no try block. *)
RestartFailed ==
    /\ pc = "Restarting"
    /\ IsFailure(reply)
    /\ pc' = "Aborted"
    /\ raised' = reply
    /\ reply' = NoReply
    /\ StepFrame

-----------------------------------------------------------------------------

Next ==
    \/ ListReplicasRestore
    \/ ListReplicasRestart
    \/ ListReplicasFails
    \/ RemoteRespond
    \/ CallRestore
    \/ RestoreSucceeded
    \/ RestoreFailedA
    \/ RestoreFailedB
    \/ RestoreFailedUnclassified
    \/ RestoreTransportFailure
    \/ CallRestartA
    \/ RestartASucceeded
    \/ CallRetryRestore
    \/ RetryRestoreSucceeded
    \/ CallRestartB
    \/ RestartBSucceeded
    \/ RemediationFailed
    \/ Advance
    \/ CallRestart
    \/ RestartSucceeded
    \/ RestartFailed

-----------------------------------------------------------------------------
(* The selector: the matching contract of the selection keywords *)

MaxPatternLen == 3

PatternAlphabet == {"a", "%", "_", ",", " "}

(* Candidate database and table names. *)
Names == {"a", " ", "aa", "a ", " a", "  "}

RECURSIVE StringsOfLen(_)
StringsOfLen(n) ==
    IF n = 0 THEN {""}
    ELSE {t \o c : t \in StringsOfLen(n - 1), c \in PatternAlphabet}

(* --database values: every string of 1..MaxPatternLen pattern characters. *)
DatabasePatterns ==
    {Absent} \cup
    {Pattern(t) : t \in UNION {StringsOfLen(n) : n \in 1..MaxPatternLen}}

ExcludeDatabasePatterns ==
    {Absent, Pattern("a"), Pattern("_%"), Pattern(" a,"), Pattern("a%")}

TablePatterns == {Absent, Pattern("a_")}

ExcludeTablePatterns == {Absent, Pattern("a, ")}

TableNames == {"a", "aa"}

Rest(t) == SubSeq(t, 2, Len(t))

(* str.strip() for the blank. *)
RECURSIVE Strip(_)
Strip(t) ==
    IF t = "" THEN ""
    ELSE IF SubSeq(t, 1, 1) = " " THEN Strip(Rest(t))
    ELSE IF SubSeq(t, Len(t), Len(t)) = " " THEN Strip(SubSeq(t, 1, Len(t) - 1))
    ELSE t

(* str.split(","): the pieces between the commas, in order. *)
RECURSIVE Split(_)
Split(t) ==
    IF ~Contains(t, ",") THEN <<t>>
    ELSE LET k == CHOOSE n \in 1..Len(t) :
                    /\ SubSeq(t, n, n) = ","
                    /\ \A m \in 1..(n - 1) : SubSeq(t, m, m) # ","
         IN <<SubSeq(t, 1, k - 1)>> \o Split(SubSeq(t, k + 1, Len(t)))

(* v LIKE p: % is any run of characters, _ is one character. *)
RECURSIVE Like(_, _)
Like(v, p) ==
    IF p = "" THEN v = ""
    ELSE LET c == SubSeq(p, 1, 1) IN
         IF c = "%" THEN Like(v, Rest(p)) \/ (v # "" /\ Like(Rest(v), p))
         ELSE IF c = "_" THEN v # "" /\ Like(Rest(v), Rest(p))
         ELSE v # "" /\ SubSeq(v, 1, 1) = c /\ Like(Rest(v), Rest(p))

matchOne_NoStrip(v, p) ==
    IF Contains(p, ",")
    THEN \E k \in 1..Len(Split(p)) : Split(p)[k] = v
    ELSE Like(v, p)

(* A pattern with a comma is a list of items, matched by IN over the      *)
(* stripped items; any other pattern is matched by LIKE.                  *)
matchOne(v, p) ==
    IF Contains(p, ",")
    THEN \E k \in 1..Len(Split(p)) : Strip(Split(p)[k]) = v
    ELSE Like(v, p)

matches_ExcludeOnlyWithInclude(v, include, exclude) ==
    IF include.present
    THEN matchOne(v, include.text)
           /\ (IF exclude.present THEN ~matchOne(v, exclude.text) ELSE TRUE)
    ELSE TRUE

(* One dimension of the filter: the include condition when given, and the *)
(* negated exclude condition when given.                                  *)
matches(v, include, exclude) ==
    /\ IF include.present THEN matchOne(v, include.text) ELSE TRUE
    /\ IF exclude.present THEN ~matchOne(v, exclude.text) ELSE TRUE

(* A candidate replica and the four selection keywords of a command line. *)
SelInit ==
    /\ sel \in [database : Names, table : TableNames,
                 database_pattern : DatabasePatterns,
                 exclude_database_pattern : ExcludeDatabasePatterns,
                 table_pattern : TablePatterns,
                 exclude_table_pattern : ExcludeTablePatterns,
                 stage : {"start"}, verdict : {TRUE}]
    /\ command = "restore"
    /\ on_cluster = FALSE
    /\ dry_run = FALSE
    /\ catalog = <<>>
    /\ pc = "Selecting"
    /\ replicas = <<>>
    /\ i = 1
    /\ calls = <<>>
    /\ remote = <<>>
    /\ intended = <<>>
    /\ reply = NoReply
    /\ raised = NoReply
    /\ reads = 0
    /\ listed = <<>>
    /\ previous = NoRun
    /\ mntr = NoMntr

SelFrame == UNCHANGED <<command, on_cluster, dry_run, catalog, pc, replicas,
                        i, calls, remote, intended, reply, raised, reads,
                        listed, previous, mntr>>

(* The database dimension is applied to the candidate. *)
MatchDatabase ==
    /\ sel.stage = "start"
    /\ sel' = [sel EXCEPT
                 !.stage = "database",
                 !.verdict = matches(sel.database, sel.database_pattern,
                                     sel.exclude_database_pattern)]
    /\ SelFrame

MatchTable_Or ==
    /\ sel.stage = "database"
    /\ sel' = [sel EXCEPT
                 !.stage = "table",
                 !.verdict = sel.verdict
                               \/ matches(sel.table, sel.table_pattern,
                                          sel.exclude_table_pattern)]
    /\ SelFrame

(* The table dimension is applied on top of the database dimension. *)
MatchTable ==
    /\ sel.stage = "database"
    /\ sel' = [sel EXCEPT
                 !.stage = "table",
                 !.verdict = sel.verdict
                               /\ matches(sel.table, sel.table_pattern,
                                          sel.exclude_table_pattern)]
    /\ SelFrame

SelNext == MatchDatabase \/ MatchTable

SelSpec == SelInit /\ [][SelNext]_vars

-----------------------------------------------------------------------------
(* keeper_mntr: the `mntr` four-letter command of the Keeper probe, with   *)
(* its retry loop                                                          *)

(* What Keeper may send back to `mntr`. *)
MntrResponses ==
    { "",
      "v 1",
      "l 0",
      "v 2\nl 0\n",
      "l\t 1\nz",
      "down" }

(* What keeper_command may raise instead of returning a response. *)
MntrExceptions ==
    { [type |-> "ConnectionRefusedError", text |-> "Connection refused"],
      [type |-> "timeout", text |-> "timed out"] }

(* The characters matched by \s. *)
Whitespace == {" ", "\t", "\n"}

IsWhitespace(t, k) == SubSeq(t, k, k) \in Whitespace

(* response.split('\n') *)
RECURSIVE split_lines(_)
split_lines(t) ==
    IF \E k \in 1..Len(t) : SubSeq(t, k, k) = "\n"
    THEN LET k == CHOOSE n \in 1..Len(t) :
                    /\ SubSeq(t, n, n) = "\n"
                    /\ \A j \in 1..(n - 1) : SubSeq(t, j, j) # "\n"
         IN  <<SubSeq(t, 1, k - 1)>> \o split_lines(SubSeq(t, k + 1, Len(t)))
    ELSE <<t>>

(* re.split('\\s+', line, 1): the line cut at its first run of whitespace. *)
re_split(line) ==
    IF \E k \in 1..Len(line) : IsWhitespace(line, k)
    THEN LET p == CHOOSE n \in 1..Len(line) :
                    /\ IsWhitespace(line, n)
                    /\ \A j \in 1..(n - 1) : ~IsWhitespace(line, j)
             q == CHOOSE n \in p..Len(line) :
                    /\ \A j \in p..n : IsWhitespace(line, j)
                    /\ n = Len(line) \/ ~IsWhitespace(line, n + 1)
         IN  <<SubSeq(line, 1, p - 1), SubSeq(line, q + 1, Len(line))>>
    ELSE <<line>>

(* response.strip() *)
RECURSIVE strip(_)
strip(t) ==
    IF Len(t) > 0 /\ IsWhitespace(t, 1) THEN strip(SubSeq(t, 2, Len(t)))
    ELSE IF Len(t) > 0 /\ IsWhitespace(t, Len(t))
         THEN strip(SubSeq(t, 1, Len(t) - 1))
         ELSE t

(* result[key] = value *)
SetItem(dict, key, value) == (key :> value) @@ dict

(* The for loop over the lines of the response: every line that splits in  *)
(* two is stored in result.                                                *)
RECURSIVE ParseLines(_, _)
ParseLines(result, lines) ==
    IF lines = <<>> THEN result
    ELSE LET key_value == re_split(Head(lines))
         IN  ParseLines(IF Len(key_value) = 2
                        THEN SetItem(result, key_value[1], key_value[2])
                        ELSE result,
                        Tail(lines))

ParseResponse(result, response) == ParseLines(result, split_lines(response))

TooShort(response) ==
    [type |-> "RuntimeError",
     text |-> "Too short response: " \o strip(response)]

(* keeper_mntr is called: result = {}, attempt = 0. *)
MntrInit ==
    /\ mntr \in [pc : {"Calling"}, retries : 0..MaxRetries, attempt : {0},
                  result : {EmptyDict}, e : {NoException},
                  outcomes : {<<>>}, returned : {EmptyDict},
                  raised : {NoException}]
    /\ command = "restore"
    /\ on_cluster = FALSE
    /\ dry_run = FALSE
    /\ catalog = <<>>
    /\ pc = "Selecting"
    /\ replicas = <<>>
    /\ i = 1
    /\ calls = <<>>
    /\ remote = <<>>
    /\ intended = <<>>
    /\ reply = NoReply
    /\ raised = NoReply
    /\ reads = 0
    /\ listed = <<>>
    /\ previous = NoRun
    /\ sel = NoSel

MntrFrame == UNCHANGED <<command, on_cluster, dry_run, catalog, pc, replicas,
                         i, calls, remote, intended, reply, raised, reads,
                         listed, previous, sel>>

(* keeper_command raises: the except clause catches the exception. *)
MntrCallFails ==
    /\ mntr.pc = "Calling"
    /\ \E e \in MntrExceptions :
         mntr' = [mntr EXCEPT
                    !.pc = "Failed",
                    !.e = e,
                    !.outcomes = Append(@, [raised |-> TRUE, response |-> "",
                                            e |-> e])]
    /\ MntrFrame

(* keeper_command returns a response: its lines are stored in result, and  *)
(* result is accepted when it holds more than one key.                     *)
MntrCallReturns ==
    /\ mntr.pc = "Calling"
    /\ \E response \in MntrResponses :
         LET result == ParseResponse(mntr.result, response)
             outcome(e) == [raised |-> FALSE, response |-> response, e |-> e]
         IN  IF Cardinality(DOMAIN result) <= 1
             THEN mntr' = [mntr EXCEPT
                             !.pc = "Failed",
                             !.result = result,
                             !.e = TooShort(response),
                             !.outcomes = Append(@, outcome(TooShort(response)))]
             ELSE mntr' = [mntr EXCEPT
                             !.pc = "Returned",
                             !.result = result,
                             !.returned = result,
                             !.outcomes = Append(@, outcome(NoException))]
    /\ MntrFrame

(* The except clause with attempts left: attempt += 1, sleep, try again. *)
MntrRetry ==
    /\ mntr.pc = "Failed"
    /\ ~(mntr.attempt >= mntr.retries)
    /\ mntr' = [mntr EXCEPT !.pc = "Calling", !.attempt = @ + 1]
    /\ MntrFrame

(* The except clause with no attempt left: raise e. *)
MntrGiveUp ==
    /\ mntr.pc = "Failed"
    /\ mntr.attempt >= mntr.retries
    /\ mntr' = [mntr EXCEPT !.pc = "Raised", !.raised = mntr.e]
    /\ MntrFrame

MntrNext == MntrCallFails \/ MntrCallReturns \/ MntrRetry \/ MntrGiveUp

MntrSpec == MntrInit /\ [][MntrNext]_vars /\ WF_vars(MntrNext)

-----------------------------------------------------------------------------
(* A second invocation of the restart command *)

InvokeAgain_ResumesAfterAbort ==
    /\ command = "restart"
    /\ pc \in {"Done", "Aborted"}
    /\ previous = NoRun
    /\ previous' = [pc |-> pc, calls |-> calls, replicas |-> replicas,
                    raised |-> raised]
    /\ pc' = "Selecting"
    /\ replicas' = <<>>
    /\ i' = IF pc = "Aborted" THEN i ELSE 1
    /\ calls' = <<>>
    /\ remote' = <<>>
    /\ intended' = <<>>
    /\ reply' = NoReply
    /\ raised' = NoReply
    /\ reads' = 0
    /\ listed' = <<>>
    /\ UNCHANGED <<command, on_cluster, dry_run, catalog, sel, mntr>>

(* The operator runs `replica restart` again with the same command line   *)
(* against the same catalog: the function starts again from its first     *)
(* line, all of its state being local variables.                          *)
InvokeAgain ==
    /\ command = "restart"
    /\ pc \in {"Done", "Aborted"}
    /\ previous = NoRun
    /\ previous' = [pc |-> pc, calls |-> calls, replicas |-> replicas,
                    raised |-> raised]
    /\ pc' = "Selecting"
    /\ replicas' = <<>>
    /\ i' = 1
    /\ calls' = <<>>
    /\ remote' = <<>>
    /\ intended' = <<>>
    /\ reply' = NoReply
    /\ raised' = NoReply
    /\ reads' = 0
    /\ listed' = <<>>
    /\ UNCHANGED <<command, on_cluster, dry_run, catalog, sel, mntr>>

NextTwice == Next \/ InvokeAgain

TwoRunSpec == Init /\ [][NextTwice]_vars

(* Every step the command can take is eventually taken: the program runs *)
(* on, and every remote call returns.                                    *)
FairSpec == Init /\ [][Next]_vars /\ WF_vars(Next)

Spec == Init /\ [][Next]_vars

-----------------------------------------------------------------------------
(* Type invariant *)

TypeOK ==
    /\ command \in Commands
    /\ on_cluster \in BOOLEAN
    /\ dry_run \in BOOLEAN
    /\ catalog \in Catalogs
    /\ pc \in {"Selecting", "Restoring", "RecoveringA", "RetryRestore",
               "RecoveringB", "Restarting", "Advancing", "Aborted", "Done"}
    /\ i \in 1..(MaxReplicas + 1)
    /\ reply \in {NoReply, Pending} \cup Responses
    /\ raised \in {NoReply} \cup Failures
    /\ reads \in 0..1

-----------------------------------------------------------------------------
(* Vocabulary of the properties *)

(* The calls issued while the loop was at position k. *)
CallsOf(k) == SelectSeq(calls, LAMBDA c : c.idx = k)

(* The calls issued for position k after its first one. *)
Remediation(k) == Tail(CallsOf(k))

(* Call c carries the identity of record r and the cluster of the run. *)
Targets(c, r) ==
    /\ c.database = r.database
    /\ c.table = r.table
    /\ c.cluster = (IF on_cluster THEN "cluster1" ELSE "None")

HasNeedleA(t) ==
    \/ Contains(t, "Replica has metadata in ZooKeeper")
    \/ Contains(t, "NO_ZOOKEEPER")

HasNeedleB(t) == Contains(t, "Replica path is present")

(* The first call for position k was a restore that failed with a message. *)
InitialFailed(k) ==
    /\ command = "restore"
    /\ Len(CallsOf(k)) >= 1
    /\ CallsOf(k)[1].op = "restore"
    /\ CallsOf(k)[1].reply.kind = "ClickhouseError"

InitialText(k) == CallsOf(k)[1].reply.text

FailedA(k) == InitialFailed(k) /\ HasNeedleA(InitialText(k))

FailedB(k) ==
    InitialFailed(k) /\ ~HasNeedleA(InitialText(k)) /\ HasNeedleB(InitialText(k))

FailedUnclassified(k) ==
    InitialFailed(k) /\ ~HasNeedleA(InitialText(k)) /\ ~HasNeedleB(InitialText(k))

(* The loop has left position k by going on to the next replica. *)
Advanced(k) == i > k \/ (i = k /\ pc = "Advancing")

(* The loop has left position k, either way. *)
Finished(k) == Advanced(k) \/ (i = k /\ pc = "Aborted")

Positions == 1..Len(replicas)

LastCall == calls[Len(calls)]

-----------------------------------------------------------------------------
(* C1 (as stated): after a RecoverableA failure of the initial restore the *)
(* remediation is three calls, restart, restore, restore.                  *)
C1_Original ==
    \A k \in Positions :
        (FailedA(k) /\ Advanced(k)) =>
            /\ Len(Remediation(k)) = 3
            /\ Remediation(k)[1].op = "restart"
            /\ Remediation(k)[2].op = "restore"
            /\ Remediation(k)[3].op = "restore"

(* C1 (amended): after a RecoverableA failure of the initial restore the   *)
(* remediation is restart(db, table, cluster) followed by one              *)
(* restore(db, table, cluster): two calls, the restore being issued once   *)
(* the restart has returned, and never a second retry restore.             *)
C1_RemediationA ==
    \A k \in Positions :
        FailedA(k) =>
            LET rem == Remediation(k) IN
            /\ Len(rem) <= 2
            /\ Len(rem) >= 1 =>
                 /\ rem[1].op = "restart"
                 /\ rem[1].phase = "remediation"
                 /\ Targets(rem[1], replicas[k])
            /\ Len(rem) = 2 =>
                 /\ rem[2].op = "restore"
                 /\ rem[2].phase = "remediation"
                 /\ Targets(rem[2], replicas[k])
                 /\ rem[1].reply = Ok
            /\ (Finished(k) /\ Len(rem) >= 1 /\ rem[1].reply = Ok) => Len(rem) = 2
            /\ Finished(k) => Len(rem) >= 1
            /\ Advanced(k) => (Len(rem) = 2 /\ rem[2].reply = Ok)

C1_Witness ==
    \E k \in Positions :
        /\ FailedA(k)
        /\ Advanced(k)
        /\ Len(CallsOf(k)) = 3
        /\ CallsOf(k)[3].op = "restore"

C3_UnclassifiedAborts ==
    \A k \in Positions :
        FailedUnclassified(k) =>
            /\ Len(CallsOf(k)) = 1
            /\ LastCall = CallsOf(k)[1]
            /\ i = k
            /\ \/ pc = "Restoring" /\ reply = LastCall.reply
               \/ pc = "Aborted" /\ raised = LastCall.reply /\ reply = NoReply

C3_Witness ==
    /\ pc = "Aborted"
    /\ i < Len(replicas)
    /\ FailedUnclassified(i)
    /\ raised = ClickhouseError("some other error")

(* C4 (as stated): once a replica is in RecoveringA or RecoveringB, a      *)
(* failure of a remediation call does not abort the run.                   *)
C4_Original ==
    command = "restore" =>
        ~(pc = "Aborted" /\ Len(calls) > 0 /\ LastCall.phase = "remediation")

(* C4 (amended): once a replica is in RecoveringA or RecoveringB, the      *)
(* orchestrator advances to the next replica exactly when every            *)
(* remediation call of the branch has succeeded; a failure of a            *)
(* remediation restart or restore aborts the run at that replica and the   *)
(* remaining replicas are not processed.                                   *)
C4_AdvanceIffRemediationOk ==
    \A k \in Positions :
        ((FailedA(k) \/ FailedB(k)) /\ Finished(k)) =>
            LET rem == Remediation(k)
                allOk == \A p \in 1..Len(rem) : rem[p].reply = Ok
            IN
            /\ Len(rem) >= 1
            /\ Advanced(k) <=> allOk
            /\ ~allOk =>
                 /\ pc = "Aborted"
                 /\ i = k
                 /\ IsFailure(raised)
                 /\ \A p \in 1..Len(calls) : calls[p].idx <= k

C4_Witness ==
    /\ command = "restore"
    /\ pc = "Aborted"
    /\ Len(calls) > 0
    /\ LastCall.phase = "remediation"
    /\ i < Len(replicas)

(* C5: a failure of a remediation call is the last call of the run: it is  *)
(* not classified, no further restart or restore follows for this or any   *)
(* later replica, and it is the failure raised to the caller.              *)
C5_RemediationFailurePropagates ==
    \A p \in 1..Len(calls) :
        (calls[p].phase = "remediation" /\ IsFailure(calls[p].reply)) =>
            /\ p = Len(calls)
            /\ i = calls[p].idx
            /\ \/ /\ pc \in {"RecoveringA", "RetryRestore", "RecoveringB"}
                  /\ reply = calls[p].reply
               \/ /\ pc = "Aborted"
                  /\ raised = calls[p].reply
                  /\ reply = NoReply

C5_Witness ==
    /\ pc = "Aborted"
    /\ Len(calls) > 0
    /\ LastCall.phase = "remediation"
    /\ raised = ClickhouseError("Code: 225. (NO_ZOOKEEPER)")
    /\ i < Len(replicas)

(* C6: with --dry-run no restart or restore reaches the remote engine:     *)
(* every call is issued with the dry-run flag, recorded as an intended     *)
(* action and answered with success; one read-only replica selected gives  *)
(* exactly one intended restore record.                                    *)
C6_DryRunNoRemoteMutation ==
    dry_run =>
        /\ remote = <<>>
        /\ reply # Pending
        /\ Len(intended) = Len(calls)
        /\ \A p \in 1..Len(calls) :
            /\ calls[p].dry_run
            /\ calls[p].reply = Ok
            /\ intended[p].op = calls[p].op
            /\ intended[p].database = calls[p].database
            /\ intended[p].table = calls[p].table
            /\ intended[p].cluster = calls[p].cluster
        /\ (command = "restore" /\ pc = "Done" /\ Len(replicas) = 1) =>
            intended = << [op |-> "restore",
                           database |-> replicas[1].database,
                           table |-> replicas[1].table,
                           cluster |-> IF on_cluster THEN "cluster1" ELSE "None"] >>

C6_Witness ==
    /\ dry_run
    /\ command = "restore"
    /\ pc = "Done"
    /\ Len(replicas) = 1
    /\ Len(intended) = 1
    /\ intended[1].op = "restore"
    /\ remote = <<>>

(* The catalog read of this run raised. *)
ReadFailed == pc = "Aborted" /\ calls = <<>> /\ replicas = <<>> /\ IsFailure(raised)

(* C7: the restart command issues one restart(db, table, cluster) per      *)
(* selected replica, in the order received, read-only or not; a failing    *)
(* restart is not classified, is raised at once and is the last call.      *)
C7_RestartCommand ==
    command = "restart" =>
        /\ pc \notin {"Restoring", "RecoveringA", "RetryRestore", "RecoveringB"}
        /\ (pc # "Selecting" /\ ~ReadFailed) => replicas = catalog
        /\ \A p \in 1..Len(calls) :
            /\ calls[p].op = "restart"
            /\ calls[p].idx = p
            /\ p <= Len(replicas)
            /\ Targets(calls[p], replicas[p])
            /\ IsFailure(calls[p].reply) =>
                 /\ p = Len(calls)
                 /\ \/ pc = "Restarting" /\ reply = calls[p].reply
                    \/ pc = "Aborted" /\ raised = calls[p].reply
        /\ pc = "Done" => Len(calls) = Len(replicas)
        /\ pc = "Advancing" => Len(calls) = i
        /\ pc = "Restarting" => Len(calls) \in {i - 1, i}

C7_Witness ==
    /\ command = "restart"
    /\ pc = "Aborted"
    /\ Len(replicas) = 2
    /\ Len(calls) = 1
    /\ ~replicas[1].is_readonly
    /\ raised = ClickhouseError("NO_ZOOKEEPER, Replica path is present")

(* C8: the needles are tested in a fixed order on the raw text, case       *)
(* sensitively: a message holding a RecoverableA needle leads to           *)
(* RecoveringA even when it also holds "Replica path is present";          *)
(* RecoveringB is entered only without a RecoverableA needle; a message    *)
(* holding no needle in its exact case ends the run.                       *)
C8_ClassificationOrder ==
    (command = "restore" /\ i \in Positions /\ InitialFailed(i)) =>
        LET t == InitialText(i) IN
        /\ pc \in {"RecoveringA", "RetryRestore"} => HasNeedleA(t)
        /\ pc = "RecoveringB" => (HasNeedleB(t) /\ ~HasNeedleA(t))
        /\ (pc = "Aborted" /\ Len(CallsOf(i)) = 1) =>
              (~HasNeedleA(t) /\ ~HasNeedleB(t))
        /\ (HasNeedleA(t) /\ HasNeedleB(t) /\ Len(CallsOf(i)) >= 2) =>
              /\ CallsOf(i)[2].op = "restart"
              /\ pc \in {"RecoveringA", "RetryRestore", "Advancing", "Aborted"}
              /\ pc = "Advancing" => Len(CallsOf(i)) = 3

C8_Witness ==
    /\ command = "restore"
    /\ pc = "RetryRestore"
    /\ InitialFailed(i)
    /\ HasNeedleA(InitialText(i))
    /\ HasNeedleB(InitialText(i))

(* The position in the catalog of the replica call c names. *)
CatalogPosition(c) ==
    CHOOSE n \in 1..Len(catalog) : Identity(catalog[n]) = <<c.database, c.table>>

(* C9: the replicas are processed in the order the catalog read returned   *)
(* them, one call at a time: every call but the last has returned, the     *)
(* calls of a replica are contiguous and no call for an earlier replica    *)
(* follows a call for a later one.                                         *)
C9_InOrderNoInterleaving ==
    /\ \A p \in 1..Len(calls) :
        /\ calls[p].idx \in Positions
        /\ calls[p].idx <= i
        /\ calls[p].database = replicas[calls[p].idx].database
        /\ calls[p].table = replicas[calls[p].idx].table
        /\ p < Len(calls) => calls[p].reply \in Responses
    /\ \A p, q \in 1..Len(calls) :
        p < q =>
            /\ calls[p].idx <= calls[q].idx
            /\ CatalogPosition(calls[p]) <= CatalogPosition(calls[q])
    /\ reply = Pending => (Len(calls) > 0 /\ LastCall.reply = Pending)

C9_Witness ==
    /\ Len(calls) = 4
    /\ calls[1].idx = 1
    /\ calls[3].idx = 1
    /\ calls[4].idx = 2
    /\ calls[4].reply = Pending

(* C10: every call of the restore command targets a replica the catalog    *)
(* read reported read-only: the selection is the read-only subsequence of  *)
(* the catalog and no writable replica receives a call.                    *)
C10_OnlyReadOnlyTargets ==
    command = "restore" =>
        /\ \A p \in 1..Len(calls) :
            \E n \in 1..Len(catalog) :
                /\ Identity(catalog[n]) = <<calls[p].database, calls[p].table>>
                /\ catalog[n].is_readonly
        /\ \A m \in Positions : replicas[m].is_readonly
        /\ (pc # "Selecting" /\ ~ReadFailed) =>
            \A n \in 1..Len(catalog) :
                catalog[n].is_readonly <=>
                    \E m \in Positions : replicas[m] = catalog[n]

C10_Witness ==
    /\ command = "restore"
    /\ ~dry_run
    /\ pc = "Done"
    /\ Len(catalog) = 2
    /\ Len(replicas) = 1
    /\ Len(remote) >= 1

(* C11: a catalog read that fails aborts the command with that error: no  *)
(* restart or restore is issued, nothing is selected, and nothing happens  *)
(* after the abort.                                                        *)
C11_ReadFailureAborts ==
    /\ [][ (pc = "Selecting" /\ IsFailure(raised')) =>
              /\ pc' = "Aborted"
              /\ replicas' = <<>>
              /\ calls' = <<>>
              /\ remote' = <<>>
              /\ intended' = <<>> ]_vars
    /\ [][ pc = "Aborted" => UNCHANGED <<replicas, calls, remote, intended, pc>> ]_vars

C11_Witness ==
    /\ pc = "Aborted"
    /\ reads = 1
    /\ calls = <<>>
    /\ raised = TransportError
    /\ Len(catalog) = 2
    /\ catalog[1].is_readonly

(* C12: a transport failure of a call of the restore command is never      *)
(* classified: it is the last call of the run, no remediation follows it,  *)
(* and it is the failure raised when the run aborts.                       *)
C12_TransportNeverClassified ==
    command = "restore" =>
        \A p \in 1..Len(calls) :
            calls[p].reply = TransportError =>
                /\ p = Len(calls)
                /\ i = calls[p].idx
                /\ calls[p].phase = "initial" => Len(CallsOf(i)) = 1
                /\ \/ /\ pc \in {"Restoring", "RecoveringA", "RetryRestore",
                                 "RecoveringB"}
                      /\ reply = TransportError
                   \/ /\ pc = "Aborted"
                      /\ raised = TransportError
                      /\ reply = NoReply

C12_Witness ==
    /\ command = "restore"
    /\ pc = "Aborted"
    /\ raised = TransportError
    /\ Len(calls) = 1
    /\ LastCall.phase = "initial"
    /\ i < Len(replicas)

(* C13: when every remote call returns, a run ends in Done or in Aborted   *)
(* and stays there; Done is reached only past the last selected replica,   *)
(* each having been processed, with no failure raised; with nothing        *)
(* selected the run is Done without any mutating call.                     *)
C13_Terminates ==
    /\ <>(pc \in {"Done", "Aborted"})
    /\ [][ pc \notin {"Done", "Aborted"} ]_vars
    /\ [](pc = "Done" =>
            /\ i = Len(replicas) + 1
            /\ raised = NoReply
            /\ reply = NoReply
            /\ \A k \in Positions :
                 Len(CallsOf(k)) >= 1 /\ CallsOf(k)[Len(CallsOf(k))].reply = Ok)
    /\ []((pc = "Done" /\ replicas = <<>>) =>
            (calls = <<>> /\ remote = <<>> /\ intended = <<>>))
    /\ [](pc = "Aborted" => IsFailure(raised))

C13_Witness ==
    /\ command = "restore"
    /\ pc = "Done"
    /\ replicas = <<>>
    /\ Len(catalog) = 2
    /\ calls = <<>>
    /\ raised = NoReply

(* The cluster annotation the flags of this run call for. *)
Annotation == IF on_cluster THEN "cluster1" ELSE "None"

(* C14 (as stated): with --on-cluster the catalog read is performed with   *)
(* the cluster context and every mutating call carries it; without it      *)
(* neither does.                                                           *)
C14_Original ==
    /\ \A p \in 1..Len(listed) : listed[p].cluster = Annotation
    /\ \A p \in 1..Len(calls) : calls[p].cluster = Annotation

(* C14 (amended): with --on-cluster every mutating call carries the        *)
(* cluster annotation and without it none does; the catalog read of both   *)
(* commands is given no cluster in either case.                            *)
C14_ClusterOnMutatingCallsOnly ==
    /\ \A p \in 1..Len(listed) : listed[p].cluster = "None"
    /\ \A p \in 1..Len(calls) : calls[p].cluster = Annotation
    /\ \A p \in 1..Len(remote) : remote[p].cluster = Annotation
    /\ \A p \in 1..Len(intended) : intended[p].cluster = Annotation

C14_Witness ==
    /\ on_cluster
    /\ Len(listed) = 1
    /\ listed[1].cluster = "None"
    /\ Len(remote) = 2
    /\ remote[2].cluster = "cluster1"

(* C15: in the restore command the first call for every replica is a       *)
(* restore, and a restart is issued for a replica only after a restore of  *)
(* that replica failed in this run with a RecoverableA or RecoverableB     *)
(* message.                                                                *)
C15_RecoveryOnlyAfterClassifiedFailure ==
    command = "restore" =>
        /\ \A k \in Positions :
            Len(CallsOf(k)) >= 1 =>
                /\ CallsOf(k)[1].op = "restore"
                /\ CallsOf(k)[1].phase = "initial"
        /\ \A p \in 1..Len(calls) :
            calls[p].op = "restart" =>
                /\ FailedA(calls[p].idx) \/ FailedB(calls[p].idx)
                /\ \E q \in 1..(p - 1) :
                    /\ calls[q].idx = calls[p].idx
                    /\ calls[q].op = "restore"
                    /\ calls[q].reply.kind = "ClickhouseError"
                    /\ calls[q].database = calls[p].database
                    /\ calls[q].table = calls[p].table
        /\ pc \in {"RecoveringA", "RetryRestore"} => FailedA(i)
        /\ pc = "RecoveringB" => FailedB(i)

C15_Witness ==
    /\ command = "restore"
    /\ i = 2
    /\ pc = "RecoveringB"
    /\ FailedB(2)
    /\ Len(CallsOf(2)) = 2
    /\ CallsOf(2)[2].op = "restart"

(* C19: one invocation reads the catalog once, before its first mutating   *)
(* call, and the selection is never read again or changed afterwards.      *)
C19_SingleCatalogRead ==
    /\ [](/\ reads <= 1
          /\ Len(listed) = reads
          /\ pc = "Selecting" => (reads = 0 /\ calls = <<>>)
          /\ pc # "Selecting" => reads = 1
          /\ calls # <<>> => reads = 1)
    /\ [][ pc # "Selecting" =>
              (reads' = reads /\ listed' = listed /\ replicas' = replicas) ]_vars

C19_Witness ==
    /\ reads = 1
    /\ pc = "Done"
    /\ Len(replicas) = 2
    /\ Len(calls) = 4

(* C20: the dry-run flag and the cluster annotation do not change during a *)
(* run: every mutating call carries those of the first call, and every     *)
(* remediation call targets the (database, table) of the failed restore    *)
(* that triggered it.                                                      *)
C20_FlagsFixedForRun ==
    /\ [][ dry_run' = dry_run /\ on_cluster' = on_cluster ]_vars
    /\ [](\A p \in 1..Len(calls) :
            /\ calls[p].dry_run = dry_run
            /\ calls[p].dry_run = calls[1].dry_run
            /\ calls[p].cluster = calls[1].cluster
            /\ calls[p].cluster = Annotation
            /\ calls[p].phase = "remediation" =>
                 \E q \in 1..(p - 1) :
                    /\ calls[q].phase = "initial"
                    /\ calls[q].op = "restore"
                    /\ IsFailure(calls[q].reply)
                    /\ calls[q].idx = calls[p].idx
                    /\ calls[q].database = calls[p].database
                    /\ calls[q].table = calls[p].table
                    /\ \A m \in (q + 1)..p : calls[m].phase = "remediation")

C20_Witness ==
    /\ on_cluster
    /\ ~dry_run
    /\ Len(calls) = 3
    /\ calls[3].phase = "remediation"
    /\ calls[3].op = "restore"
    /\ calls[3].cluster = "cluster1"

(* The first n answers of this run are those the previous run received. *)
SameAnswers(n) ==
    /\ n <= Len(previous.calls)
    /\ \A q \in 1..n : calls[q].reply = previous.calls[q].reply

(* The catalog read of the previous run succeeded. *)
PreviousReadOk == ~(previous.pc = "Aborted" /\ previous.calls = <<>>)

SameCall(c, d) ==
    /\ c.op = d.op
    /\ c.database = d.database
    /\ c.table = d.table
    /\ c.cluster = d.cluster
    /\ c.dry_run = d.dry_run
    /\ c.idx = d.idx

(* C16: a second run of the restart command on the same catalog with the   *)
(* same flags issues, as long as it receives the same answers, the same    *)
(* restart calls as the first run, and with the same answers throughout it *)
(* ends the same way after the same number of calls.                       *)
C16_RestartRepeatable ==
    (command = "restart" /\ previous # NoRun) =>
        /\ \A p \in 1..Len(calls) :
            (PreviousReadOk /\ SameAnswers(p - 1)) =>
                /\ p <= Len(previous.calls)
                /\ SameCall(calls[p], previous.calls[p])
        /\ (pc # "Selecting" /\ ~ReadFailed /\ PreviousReadOk) =>
            replicas = previous.replicas
        /\ (pc \in {"Done", "Aborted"} /\ ~ReadFailed /\ PreviousReadOk
              /\ SameAnswers(Len(calls))) =>
            /\ Len(calls) = Len(previous.calls)
            /\ pc = previous.pc
            /\ raised = previous.raised

C16_Witness ==
    /\ command = "restart"
    /\ previous # NoRun
    /\ ~dry_run
    /\ pc = "Aborted"
    /\ Len(calls) = 2
    /\ Len(previous.calls) = 2
    /\ SameAnswers(2)
    /\ SameCall(calls[2], previous.calls[2])

(* Every character of t is a blank. *)
IsBlank(t) == \A k \in 1..Len(t) : SubSeq(t, k, k) = " "

(* e is one of the pieces of p between its commas (or its ends). *)
IsItem(p, a, b) ==
    /\ a \in 1..(Len(p) + 1)
    /\ b \in (a - 1)..Len(p)
    /\ a = 1 \/ SubSeq(p, a - 1, a - 1) = ","
    /\ b = Len(p) \/ SubSeq(p, b + 1, b + 1) = ","
    /\ \A k \in a..b : SubSeq(p, k, k) # ","

(* v is an item of the list p once the blanks around the item are removed. *)
InTrimmedItems(v, p) ==
    \E a \in 1..(Len(p) + 1), b \in 0..Len(p) :
        /\ IsItem(p, a, b)
        /\ \E c \in a..(b + 1), d \in (a - 1)..b :
            /\ d >= c - 1
            /\ SubSeq(p, c, d) = v
            /\ IsBlank(SubSeq(p, a, c - 1))
            /\ IsBlank(SubSeq(p, d + 1, b))
            /\ d >= c => (SubSeq(p, c, c) # " " /\ SubSeq(p, d, d) # " ")

(* v is p with every % replaced by some string, possibly empty, and every *)
(* _ by some single character: cut[k] is where the part of v matched by   *)
(* the first k pattern characters ends.                                   *)
LikeSemantics(v, p) ==
    \E cut \in [0..Len(p) -> 0..Len(v)] :
        /\ cut[0] = 0
        /\ cut[Len(p)] = Len(v)
        /\ \A k \in 1..Len(p) :
            /\ cut[k - 1] <= cut[k]
            /\ LET c == SubSeq(p, k, k)
                   piece == SubSeq(v, cut[k - 1] + 1, cut[k])
               IN IF c = "%" THEN TRUE
                  ELSE IF c = "_" THEN Len(piece) = 1
                  ELSE piece = c

MatchSemantics(v, p) ==
    IF \E k \in 1..Len(p) : SubSeq(p, k, k) = ","
    THEN InTrimmedItems(v, p)
    ELSE LikeSemantics(v, p)

DimensionOk(v, include, exclude) ==
    /\ include.present => MatchSemantics(v, include.text)
    /\ ~(exclude.present /\ MatchSemantics(v, exclude.text))

(* C17: the verdict of one dimension is matchOne(v, include) and not       *)
(* matchOne(v, exclude), an absent include matching every candidate and an *)
(* absent exclude none; the database and table dimensions combine by AND.  *)
C17_IncludeAndNotExclude ==
    LET db == DimensionOk(sel.database, sel.database_pattern,
                          sel.exclude_database_pattern)
        tb == DimensionOk(sel.table, sel.table_pattern,
                          sel.exclude_table_pattern)
    IN
    /\ sel.stage = "database" => sel.verdict = db
    /\ sel.stage = "table" => sel.verdict = (db /\ tb)
    /\ (sel.stage = "database" /\ ~sel.database_pattern.present
          /\ ~sel.exclude_database_pattern.present) => sel.verdict

C17_Witness ==
    /\ sel.stage = "table"
    /\ ~sel.database_pattern.present
    /\ sel.exclude_database_pattern = Pattern("a%")
    /\ sel.database = " a"
    /\ sel.table_pattern.present
    /\ sel.exclude_table_pattern.present
    /\ sel.table = "aa"
    /\ sel.verdict

(* C18: a pattern is a list exactly when it contains a comma: it then      *)
(* matches v when v is one of its comma-separated items with the blanks    *)
(* around the item removed; a pattern without a comma matches as LIKE, %   *)
(* standing for any string, the empty one included, and _ for exactly one  *)
(* character.                                                              *)
C18_ListOrLike ==
    (sel.stage = "database" /\ sel.database_pattern.present
       /\ ~sel.exclude_database_pattern.present) =>
        LET p == sel.database_pattern.text
            v == sel.database
        IN IF \E k \in 1..Len(p) : SubSeq(p, k, k) = ","
           THEN sel.verdict = InTrimmedItems(v, p)
           ELSE sel.verdict = LikeSemantics(v, p)

C18_Witness ==
    /\ sel.stage = "database"
    /\ sel.database_pattern = Pattern("a ,")
    /\ ~sel.exclude_database_pattern.present
    /\ sel.database = "a"
    /\ sel.verdict

(* The calls of kind op among the calls issued at position k. *)
CallsOfKind(k, op) == SelectSeq(CallsOf(k), LAMBDA c : c.op = op)

(* C21: in a run of the restore command every position of the selection    *)
(* is visited at most once and receives at most one restart, whatever the  *)
(* remote engine answers.                                                  *)
C21_AtMostOneVisitAndRestart ==
    command = "restore" =>
        \A k \in Positions :
            /\ Len(CallsOfKind(k, "restart")) <= 1
            /\ Len(SelectSeq(CallsOf(k), LAMBDA c : c.phase = "initial")) <= 1
            /\ Len(CallsOfKind(k, "restore")) <= 2
            /\ Len(CallsOf(k)) <= 3
            /\ k > i => CallsOf(k) = <<>>

C21_Witness ==
    /\ command = "restore"
    /\ pc = "Done"
    /\ Len(replicas) = 2
    /\ Len(CallsOfKind(1, "restart")) = 1
    /\ Len(CallsOfKind(2, "restart")) = 1
    /\ Len(CallsOf(1)) = 3

(* C22: with --dry-run the restore command, once the catalog is read,      *)
(* never enters RecoveringA, RecoveringB or Aborted: the intended actions  *)
(* are one restore per selected replica, in the order of the selection,    *)
(* and the run ends in Done.                                               *)
C22_DryRunStraightToDone ==
    /\ []((dry_run /\ command = "restore") =>
            /\ pc \notin {"RecoveringA", "RetryRestore", "RecoveringB"}
            /\ pc = "Aborted" => ReadFailed
            /\ Len(intended) <= Len(replicas)
            /\ \A p \in 1..Len(intended) :
                 /\ intended[p].op = "restore"
                 /\ intended[p].database = replicas[p].database
                 /\ intended[p].table = replicas[p].table
                 /\ replicas[p].is_readonly
            /\ pc = "Done" => Len(intended) = Len(replicas))
    /\ []((dry_run /\ command = "restore" /\ pc \in {"Restoring", "Advancing"})
            => <>(pc = "Done"))

C22_Witness ==
    /\ dry_run
    /\ command = "restore"
    /\ pc = "Done"
    /\ Len(replicas) = 2
    /\ Len(intended) = 2
    /\ intended[2].op = "restore"

(* The attempts of the mntr command made so far, and the last of them. *)
Attempts == 1..Len(mntr.outcomes)

LastAttempt == mntr.outcomes[Len(mntr.outcomes)]

(* What the response of one attempt parses to on its own. *)
ParsedAlone(outcome) == ParseResponse(EmptyDict, outcome.response)

(* An attempt fails: connection error, or a response that parses to at     *)
(* most one key.                                                           *)
AttemptFails(outcome) ==
    \/ outcome.raised
    \/ Cardinality(DOMAIN ParsedAlone(outcome)) <= 1

(* The exception an attempt that fails ends with. *)
ExceptionOf(outcome) ==
    IF outcome.raised THEN outcome.e ELSE TooShort(outcome.response)

(* C23: keeper_mntr terminates after at most retries + 1 attempts: it      *)
(* returns after the first attempt that does not fail, and when every      *)
(* attempt fails (connection error, or a response parsing to at most one   *)
(* key) it raises the exception of the last attempt.                       *)
C23_ReturnsAtFirstAttemptThatDoesNotFail ==
    /\ [](mntr.pc # "Idle" =>
            /\ Len(mntr.outcomes) <= mntr.retries + 1
            /\ mntr.pc = "Returned" =>
                 /\ ~AttemptFails(LastAttempt)
                 /\ \A k \in Attempts :
                      k < Len(mntr.outcomes) => AttemptFails(mntr.outcomes[k])
            /\ mntr.pc = "Raised" =>
                 /\ Len(mntr.outcomes) = mntr.retries + 1
                 /\ \A k \in Attempts : AttemptFails(mntr.outcomes[k])
                 /\ mntr.raised = ExceptionOf(LastAttempt)
            /\ mntr.pc = "Calling" =>
                 \A k \in Attempts : AttemptFails(mntr.outcomes[k]))
    /\ (mntr.pc # "Idle") ~> (mntr.pc \in {"Returned", "Raised"})

(* C24: the dictionary keeper_mntr returns holds only the key/value pairs  *)
(* parsed from the response of the final attempt, and that response alone  *)
(* parsed to more than one key.                                            *)
C24_ResultFromFinalAttemptOnly ==
    mntr.pc = "Returned" =>
        /\ mntr.returned = ParsedAlone(LastAttempt)
        /\ Cardinality(DOMAIN ParsedAlone(LastAttempt)) > 1

====
